---- MODULE Spec2Model ----
(***************************************************************************)
(* Model of the distributed image crawler (package crawler and             *)
(* cmd/crawlsvc): the shared Redis state, the worker loop of Crawler.Run,  *)
(* the claim/dedup/scrape/enqueue loop of Crawler.crawl and the            *)
(* fetch -> parse -> resolve pipeline of scrape.                           *)
(*                                                                         *)
(* Strings that are URLs are modelled by their parsed form, a record       *)
(* [valid, host, path, frag]: valid is whether net/url.Parse accepts the   *)
(* string, host is "" for a relative reference, path is the sequence of    *)
(* "/"-separated segments ("" is an empty segment, as in "//x" or a        *)
(* trailing slash) and frag is the fragment.  Only absolute-path and empty *)
(* relative references are modelled.                                       *)
(***************************************************************************)
EXTENDS Integers, Sequences, FiniteSets, TLC

\* Largest number of goroutines RunN is asked to launch (the -workers flag).
NumWorkers == 2

Workers == 1..NumWorkers

VARIABLES
    mainpc,        \* position of main(): "seed", "runN", "wait", "returned", "dead"
    pc,            \* pc[w]: position of worker w inside Run/crawl; "done" after the
                   \* return at active == 0, "failed" after a return on an error
    url,           \* url[w]: the URL worker w popped and is processing
    sendq,         \* sendq[w]: commands buffered by conn.Send, not yet executed
    web,           \* the site served to http.Get
    seedURL,       \* the -url flag
    workersN,      \* the -workers flag
    activeWorkers, \* Redis counter KeyActiveWorkers
    crawlQ,        \* Redis set KeyCrawlQ (the Frontier)
    visitedHREFs,  \* Redis set KeyVisitedHREFs (Visited)
    imageSrcs,     \* Redis set KeyImageSrcs (image results)
    insertedN,     \* history: per URL, number of SADD visitedHREFs replies equal to 1
    insertedBy,    \* history: per URL, workers that saw inserted = 1
    scrapeN,       \* history: per URL, number of scrape(url) calls
    scrapedBy,     \* history: per URL, workers that called scrape(url)
    claimedEver,   \* history: URLs ever returned by SPOP
    fetchFailed,   \* history: URLs whose http.Get returned an error
    failed         \* history: <<w, command>> for every store command of w that failed

vars == <<mainpc, pc, url, sendq, web, seedURL, workersN, activeWorkers, crawlQ,
          visitedHREFs, imageSrcs, insertedN, insertedBy, scrapeN, scrapedBy,
          claimedEver, fetchFailed, failed>>

hist == <<insertedN, insertedBy, scrapeN, scrapedBy, claimedEver, fetchFailed, failed>>

----------------------------------------------------------------------------
(* URLs and pages *)

Ref(host, path, frag) == [valid |-> TRUE, host |-> host, path |-> path, frag |-> frag]

\* A string net/url.Parse rejects.
BadRef == [valid |-> FALSE, host |-> "", path |-> <<>>, frag |-> ""]

\* The Go zero string "".
EmptyString == Ref("", <<>>, "")

\* No URL held (the zero value of the local variable).
NoURL == [valid |-> FALSE, host |-> "-", path |-> <<>>, frag |-> ""]

\* html.Token as produced by the tokenizer: type, tag name, attributes.
Tok(type, data, attr) == [type |-> type, data |-> data, attr |-> attr]

Attr(key, val) == [Key |-> key, Val |-> val]

A(href) == Tok("StartTag", "a", <<Attr("href", href)>>)

Img(src) == Tok("SelfClosingTag", "img", <<Attr("alt", EmptyString), Attr("src", src)>>)

\* An HTTP response: content-type header (as a sequence of lexical pieces) and body tokens.
Resp(ct, body) == [ct |-> ct, body |-> body]

HTML == <<"text/html", "; charset=utf-8">>

PDF == <<"application/pdf">>

\* Mutant of HasPrefix: every content type passes.
HasPrefixAlways(s, prefix) == TRUE

\* strings.HasPrefix
HasPrefix(s, prefix) ==
    /\ Len(s) >= Len(prefix)
    /\ SubSeq(s, 1, Len(prefix)) = prefix

RECURSIVE DropEmpty(_)
DropEmpty(p) ==
    IF p = <<>> THEN <<>>
    ELSE IF Head(p) = "" THEN DropEmpty(Tail(p))
    ELSE <<Head(p)>> \o DropEmpty(Tail(p))

\* purell.NormalizeURL with FlagsUsuallySafeGreedy | FlagRemoveFragment |
\* FlagRemoveDuplicateSlashes | FlagSortQuery: the fragment is removed, empty path
\* segments (duplicate and trailing slashes) are removed.
toSanitizedString(u) == Ref(u.host, DropEmpty(u.path), "")

\* (*URL).ResolveReference: an absolute reference stands; a relative one takes
\* the base's host, and the base's path too when its own path is empty.
ResolveReference(baseURL, ref) ==
    IF ref.host # "" THEN ref
    ELSE IF ref.path = <<>> THEN Ref(baseURL.host, baseURL.path, ref.frag)
    ELSE Ref(baseURL.host, ref.path, ref.frag)

Hostname(u) == u.host

RECURSIVE resolveLoop(_, _, _)
resolveLoop(baseURL, urls, skipExternal) ==
    IF urls = <<>> THEN <<>>
    ELSE (IF ~Head(urls).valid THEN <<>>
          ELSE IF /\ skipExternal
                  /\ Hostname(ResolveReference(baseURL, Head(urls))) # Hostname(baseURL)
               THEN <<>>
          ELSE <<toSanitizedString(ResolveReference(baseURL, Head(urls)))>>)
         \o resolveLoop(baseURL, Tail(urls), skipExternal)

\* Mutant of resolveURLs: skipExternal is not looked at.
resolveURLsKeepsExternal(base, urls, skipExternal) ==
    IF ~base.valid THEN <<>>
    ELSE resolveLoop(base, urls, FALSE)

resolveURLs(base, urls, skipExternal) ==
    IF ~base.valid THEN <<>>
    ELSE resolveLoop(base, urls, skipExternal)

\* matchTag: whether the token is the tag, and the value of its first attribute
\* of that name (the zero string when it has none).
RECURSIVE attrVal(_, _)
attrVal(attrs, attrName) ==
    IF attrs = <<>> THEN EmptyString
    ELSE IF Head(attrs).Key = attrName THEN Head(attrs).Val
    ELSE attrVal(Tail(attrs), attrName)

matchTag(tok, tag, attrName) ==
    [isMatch |-> tok.data = tag,
     val |-> IF tok.data = tag THEN attrVal(tok.attr, attrName) ELSE EmptyString]

\* parse, for one tag: the attribute values of the start and self-closing tags
\* of that name, up to the first ErrorToken (end of input included).
RECURSIVE collect(_, _, _)
collect(toks, tag, attrName) ==
    IF toks = <<>> \/ Head(toks).type = "Error" THEN <<>>
    ELSE IF /\ Head(toks).type \in {"StartTag", "SelfClosingTag"}
            /\ matchTag(Head(toks), tag, attrName).isMatch
         THEN <<matchTag(Head(toks), tag, attrName).val>> \o collect(Tail(toks), tag, attrName)
         ELSE collect(Tail(toks), tag, attrName)

parse(toks) ==
    [imgSrcs |-> collect(toks, "img", "src"), hrefs |-> collect(toks, "a", "href")]

\* What the server answers for a URL: the fragment is not part of the request;
\* a path the site does not serve gets an empty HTML error page.
NotFound == Resp(HTML, <<>>)

PageKey(u) == <<u.host, DropEmpty(u.path)>>

HttpGet(w, u) == IF PageKey(u) \in DOMAIN w THEN w[PageKey(u)] ELSE NotFound

\* scrape after a successful http.Get.
scrape(w, u) ==
    LET resp == HttpGet(w, u)
        parsed == parse(resp.body)
    IN  IF ~HasPrefix(resp.ct, <<"text/html">>)
        THEN [hrefs |-> <<>>, imgSrcs |-> <<>>]
        ELSE [hrefs |-> resolveURLs(u, parsed.hrefs, TRUE),
              imgSrcs |-> resolveURLs(u, parsed.imgSrcs, FALSE)]

----------------------------------------------------------------------------
(* The sites served to the crawler and the seeds given to it *)

Root == Ref("a.com", <<>>, "")

\* The same page as Root, written with a fragment.
RootFrag == Ref("a.com", <<>>, "top")

PathRef(seg) == Ref("", <<seg>>, "")

\* root -> x, y; x -> y; y -> root: a diamond closed by a cycle, with a local and
\* an external image and an external link.
WebCycle ==
    (<<"a.com", <<>>>> :> Resp(HTML, <<A(PathRef("x")), A(PathRef("y")), Img(PathRef("logo.png"))>>))
    @@ (<<"a.com", <<"x">>>> :> Resp(HTML, <<A(PathRef("y")), Img(Ref("b.com", <<"i.png">>, ""))>>))
    @@ (<<"a.com", <<"y">>>> :> Resp(HTML, <<A(Ref("a.com", <<"">>, "top")), A(Ref("b.com", <<"q">>, ""))>>))

\* root -> f.pdf (not HTML), x; x has an img without src, an unparsable href, text,
\* an end tag, and a link after the point where the tokenizer gives up.
WebMixed ==
    (<<"a.com", <<>>>> :> Resp(HTML, <<A(PathRef("f.pdf")), Tok("Text", "hello", <<>>), A(PathRef("x"))>>))
    @@ (<<"a.com", <<"f.pdf">>>> :> Resp(PDF, <<A(PathRef("hidden"))>>))
    @@ (<<"a.com", <<"x">>>> :> Resp(HTML, <<Tok("StartTag", "img", <<>>), A(BadRef), Tok("EndTag", "a", <<>>),
                                            Img(PathRef("p.png")), Tok("Error", "", <<>>), A(PathRef("late"))>>))

Webs == {WebCycle, WebMixed}

Seeds == {Root, RootFrag}

Range(q) == {q[i] : i \in 1..Len(q)}

\* The URLs a crawl of site w can meet: the seeds and everything scrape returns
\* as a link from them, transitively.
RECURSIVE Closure(_, _)
Closure(w, S) ==
    IF (UNION {Range(scrape(w, u).hrefs) : u \in S}) \subseteq S THEN S
    ELSE Closure(w, S \cup UNION {Range(scrape(w, u).hrefs) : u \in S})

\* scrape(u) for every URL of every site, computed once.
Scraped == [w \in Webs |-> [u \in Closure(w, Seeds) |-> scrape(w, u)]]

\* scrape(u) on site w, looked up when it can be.
ScrapeOf(w, u) == IF u \in DOMAIN Scraped[w] THEN Scraped[w][u] ELSE scrape(w, u)

----------------------------------------------------------------------------
(* The shared store (Redis) commands *)

\* Mutant of SAdd: the member replaces the set.
SAddReplaces(set, member) == {member}

\* SADD key member: the set afterwards.
SAdd(set, member) == set \cup {member}

\* Mutant of SAddReply: the reply is taken to be 1 whatever the set held.
SAddReplyAlwaysNew(set, member) == 1

\* SADD's reply: the number of members newly added.
SAddReply(set, member) == IF member \in set THEN 0 ELSE 1

\* Mutant of SPopRest: the member is read but left in the set (SRANDMEMBER).
SPopRestKeeps(set, member) == set

\* SPOP key: the set once member has been popped.
SPopRest(set, member) == set \ {member}

\* SCARD key
SCard(set) == Cardinality(set)

\* Mutant of IncrValue: the key is read, not incremented (GET for INCR).
IncrValueKeeps(n) == n

\* Mutant of DecrValue: the counter is incremented a second time instead.
DecrValueIncrements(n) == n + 1

\* INCR key / DECR key: the new value, which is also the reply.
IncrValue(n) == n + 1

DecrValue(n) == n - 1

\* History functions: a count per URL, 0 when absent; a set per URL, {} when absent.
CountOf(f, u) == IF u \in DOMAIN f THEN f[u] ELSE 0

SetOf(f, u) == IF u \in DOMAIN f THEN f[u] ELSE {}

Bump(f, u) == (u :> CountOf(f, u) + 1) @@ f

Note(f, u, w) == (u :> (SetOf(f, u) \cup {w})) @@ f

----------------------------------------------------------------------------
(* main: New, Seed, RunN *)

Init ==
    /\ mainpc = "seed"
    /\ pc = [w \in Workers |-> "idle"]
    /\ url = [w \in Workers |-> NoURL]
    /\ sendq = [w \in Workers |-> <<>>]
    /\ web \in Webs
    /\ seedURL \in Seeds
    /\ workersN \in 1..NumWorkers
    /\ activeWorkers = 0
    /\ crawlQ = {}
    /\ visitedHREFs = {}
    /\ imageSrcs = {}
    /\ insertedN = <<>>
    /\ insertedBy = <<>>
    /\ scrapeN = <<>>
    /\ scrapedBy = <<>>
    /\ claimedEver = {}
    /\ fetchFailed = {}
    /\ failed = {}

\* The goroutines of RunN(workersN).
Launched == 1..workersN

\* c.Seed(url)
Seed ==
    /\ mainpc = "seed"
    /\ crawlQ' = SAdd(crawlQ, seedURL)
    /\ mainpc' = "runN"
    /\ UNCHANGED <<pc, url, sendq, web, seedURL, workersN, activeWorkers, visitedHREFs, imageSrcs, hist>>

\* c.RunN(n): the goroutines are started, main blocks in wg.Wait.
RunN ==
    /\ mainpc = "runN"
    /\ pc' = [w \in Workers |-> IF w \in Launched THEN "incr" ELSE "idle"]
    /\ mainpc' = "wait"
    /\ UNCHANGED <<url, sendq, web, seedURL, workersN, activeWorkers, crawlQ, visitedHREFs, imageSrcs, hist>>

\* wg.Wait returns once every goroutine has called wg.Done.
RunNReturn ==
    /\ mainpc = "wait"
    /\ \A w \in Launched : pc[w] \in {"done", "failed"}
    /\ mainpc' = "returned"
    /\ UNCHANGED <<pc, url, sendq, web, seedURL, workersN, activeWorkers, crawlQ, visitedHREFs, imageSrcs, hist>>

----------------------------------------------------------------------------
(* Crawler.Run and Crawler.crawl, one action per store command or fetch *)

\* Positions at which a worker holds a URL it popped.
HoldingPCs == {"sadd", "scrape", "flush"}

\* The loop variable url of crawl: it exists only inside an iteration.
Held(p, u) == IF p \in HoldingPCs THEN u ELSE NoURL

\* Run: INCR activeWorkers, then crawl.
Incr(w) ==
    /\ pc[w] = "incr"
    /\ activeWorkers' = IncrValue(activeWorkers)
    /\ pc' = [pc EXCEPT ![w] = "spop"]
    /\ UNCHANGED <<mainpc, url, sendq, web, seedURL, workersN, crawlQ, visitedHREFs, imageSrcs, hist>>

\* Mutant of AfterDuplicate: `return` instead of `continue` ends crawl at the first
\* duplicate.
AfterDuplicateReturns == "decr"

\* Mutant of AfterDuplicate: the `continue` is missing and the URL is scraped again.
AfterDuplicateScrapes == "scrape"

\* Where crawl goes when SADD visitedHREFs replies 0 (already visited): the next SPOP.
AfterDuplicate == "spop"

\* crawl: SPOP crawlQ; redis.ErrNil (empty set) ends crawl.
SPop(w) ==
    /\ pc[w] = "spop"
    /\ IF crawlQ = {}
       THEN /\ pc' = [pc EXCEPT ![w] = "decr"]
            /\ UNCHANGED <<url, crawlQ, claimedEver>>
       ELSE \E u \in crawlQ :
            /\ crawlQ' = SPopRest(crawlQ, u)
            /\ url' = [url EXCEPT ![w] = u]
            /\ claimedEver' = claimedEver \cup {u}
            /\ pc' = [pc EXCEPT ![w] = "sadd"]
    /\ UNCHANGED <<mainpc, sendq, web, seedURL, workersN, activeWorkers, visitedHREFs, imageSrcs,
                   insertedN, insertedBy, scrapeN, scrapedBy, fetchFailed, failed>>

\* crawl: SADD visitedHREFs url; skip the URL when it was already a member.
MarkVisited(w) ==
    LET inserted == SAddReply(visitedHREFs, url[w])
        next == IF inserted = 0 THEN AfterDuplicate ELSE "scrape"
    IN
    /\ pc[w] = "sadd"
    /\ visitedHREFs' = SAdd(visitedHREFs, url[w])
    /\ pc' = [pc EXCEPT ![w] = next]
    /\ url' = [url EXCEPT ![w] = Held(next, url[w])]
    /\ IF inserted = 0
       THEN UNCHANGED <<insertedN, insertedBy>>
       ELSE /\ insertedN' = Bump(insertedN, url[w])
            /\ insertedBy' = Note(insertedBy, url[w], w)
    /\ UNCHANGED <<mainpc, sendq, web, seedURL, workersN, activeWorkers, crawlQ, imageSrcs,
                   scrapeN, scrapedBy, claimedEver, fetchFailed, failed>>

\* Mutant of Commands: the loop stops one element early.
RECURSIVE CommandsOffByOne(_, _)
CommandsOffByOne(key, urls) ==
    IF Len(urls) <= 1 THEN <<>>
    ELSE <<[key |-> key, member |-> Head(urls)]>> \o CommandsOffByOne(key, Tail(urls))

RECURSIVE Commands(_, _)
Commands(key, urls) ==
    IF urls = <<>> THEN <<>>
    ELSE <<[key |-> key, member |-> Head(urls)]>> \o Commands(key, Tail(urls))

\* Mutant of Sends: the two loops send to each other's key.
SendsSwapsKeys(r) == Commands("crawlQ", r.imgSrcs) \o Commands("imageSrcs", r.hrefs)

\* crawl: the conn.Send calls after scrape, images first, then links.
Sends(r) == Commands("imageSrcs", r.imgSrcs) \o Commands("crawlQ", r.hrefs)

\* crawl: scrape(url) with http.Get succeeding; the results are buffered by
\* conn.Send for conn.Flush.
Scrape(w) ==
    /\ pc[w] = "scrape"
    /\ \E cmds \in {Sends(ScrapeOf(web, url[w]))} :
        /\ sendq' = [sendq EXCEPT ![w] = cmds]
        /\ IF cmds = <<>>
           THEN /\ pc' = [pc EXCEPT ![w] = "spop"]
                /\ url' = [url EXCEPT ![w] = NoURL]
           ELSE /\ pc' = [pc EXCEPT ![w] = "flush"]
                /\ UNCHANGED url
    /\ scrapeN' = Bump(scrapeN, url[w])
    /\ scrapedBy' = Note(scrapedBy, url[w], w)
    /\ UNCHANGED <<mainpc, web, seedURL, workersN, activeWorkers, crawlQ, visitedHREFs, imageSrcs,
                   insertedN, insertedBy, claimedEver, fetchFailed, failed>>

\* scrape: http.Get returns an error; log.Fatal prints it and calls os.Exit(1),
\* which ends the process: main and every goroutine.
ScrapeFail(w) ==
    /\ pc[w] = "scrape"
    /\ fetchFailed' = fetchFailed \cup {url[w]}
    /\ scrapeN' = Bump(scrapeN, url[w])
    /\ scrapedBy' = Note(scrapedBy, url[w], w)
    /\ pc' = [v \in Workers |-> IF v \in Launched THEN "dead" ELSE "idle"]
    /\ mainpc' = "dead"
    /\ UNCHANGED <<url, sendq, web, seedURL, workersN, activeWorkers, crawlQ, visitedHREFs, imageSrcs,
                   insertedN, insertedBy, claimedEver, failed>>

\* crawl: conn.Flush; Redis executes the buffered SADDs one at a time, in order.
Flush(w) ==
    LET cmd == Head(sendq[w])
        rest == Tail(sendq[w])
    IN
    /\ pc[w] = "flush"
    /\ sendq[w] # <<>>
    /\ IF cmd.key = "imageSrcs"
       THEN /\ imageSrcs' = SAdd(imageSrcs, cmd.member)
            /\ UNCHANGED crawlQ
       ELSE /\ crawlQ' = SAdd(crawlQ, cmd.member)
            /\ UNCHANGED imageSrcs
    /\ sendq' = [sendq EXCEPT ![w] = rest]
    /\ IF rest = <<>>
       THEN /\ pc' = [pc EXCEPT ![w] = "spop"]
            /\ url' = [url EXCEPT ![w] = NoURL]
       ELSE UNCHANGED <<pc, url>>
    /\ UNCHANGED <<mainpc, web, seedURL, workersN, activeWorkers, visitedHREFs, hist>>

\* Run: DECR activeWorkers; return when the reply is 0, else sleep and poll.
Decr(w) ==
    LET active == DecrValue(activeWorkers) IN
    /\ pc[w] = "decr"
    /\ activeWorkers' = active
    /\ pc' = [pc EXCEPT ![w] = IF active = 0 THEN "done" ELSE "sleep"]
    /\ UNCHANGED <<mainpc, url, sendq, web, seedURL, workersN, crawlQ, visitedHREFs, imageSrcs, hist>>

\* Mutant of AfterWake: the worker resumes crawling without INCR.
AfterWakeSkipsIncr == "spop"

\* Where Run goes when the poll finds the queue non-empty: back to INCR.
AfterWake == "incr"

\* Run: time.Sleep, then SCARD crawlQ; a non-empty queue wakes the worker up.
Scard(w) ==
    LET qLen == SCard(crawlQ) IN
    /\ pc[w] = "sleep"
    /\ pc' = [pc EXCEPT ![w] = IF qLen > 0 THEN AfterWake ELSE "get"]
    /\ UNCHANGED <<mainpc, url, sendq, web, seedURL, workersN, activeWorkers, crawlQ, visitedHREFs, imageSrcs, hist>>

\* Run: GET activeWorkers; return when it is 0, else sleep again.
Get(w) ==
    LET active == activeWorkers IN
    /\ pc[w] = "get"
    /\ pc' = [pc EXCEPT ![w] = IF active = 0 THEN "done" ELSE "sleep"]
    /\ UNCHANGED <<mainpc, url, sendq, web, seedURL, workersN, activeWorkers, crawlQ, visitedHREFs, imageSrcs, hist>>

WorkerStep(w) ==
    \/ Incr(w)
    \/ SPop(w)
    \/ MarkVisited(w)
    \/ Scrape(w)
    \/ Flush(w)
    \/ Decr(w)
    \/ Scard(w)
    \/ Get(w)

MainStep == Seed \/ RunN \/ RunNReturn

Next == MainStep \/ \E w \in Workers : WorkerStep(w)

\* Every store command and every fetch succeeds.
Spec == Init /\ [][Next]_vars

\* Goroutines are scheduled fairly and every call returns.
Fairness == WF_vars(MainStep) /\ \A w \in Workers : WF_vars(WorkerStep(w))

SpecLive == Spec /\ Fairness

\* http.Get may fail.
NextFetchFail == Next \/ \E w \in Workers : ScrapeFail(w)

SpecFetchFail == Init /\ [][NextFetchFail]_vars

----------------------------------------------------------------------------
(* Store commands that fail.  A failed command is one Redis did not execute:  *)
(* the connection or the server reports an error and the data is as before.   *)

histNoFail == <<insertedN, insertedBy, scrapeN, scrapedBy, claimedEver, fetchFailed>>

Fails(w, cmd) == failed' = failed \cup {<<w, cmd>>}

\* redis.Int(reply, err) with err # nil: the zero value.
FailedInt == 0

\* Run: INCR fails; the error is logged and Run returns.
IncrFail(w) ==
    /\ pc[w] = "incr"
    /\ Fails(w, "INCR")
    /\ pc' = [pc EXCEPT ![w] = "failed"]
    /\ UNCHANGED <<mainpc, url, sendq, web, seedURL, workersN, activeWorkers, crawlQ,
                   visitedHREFs, imageSrcs, histNoFail>>

\* crawl: SPOP fails with an error other than redis.ErrNil; it is logged and the
\* loop continues with the next SPOP.
SPopFail(w) ==
    /\ pc[w] = "spop"
    /\ Fails(w, "SPOP")
    /\ UNCHANGED <<mainpc, pc, url, sendq, web, seedURL, workersN, activeWorkers, crawlQ,
                   visitedHREFs, imageSrcs, histNoFail>>

\* Mutant of MarkVisitedFail: the URL is put back into crawlQ.
MarkVisitedFailRequeues(w) ==
    /\ pc[w] = "sadd"
    /\ Fails(w, "SADD visitedHREFs")
    /\ crawlQ' = SAdd(crawlQ, url[w])
    /\ pc' = [pc EXCEPT ![w] = "spop"]
    /\ url' = [url EXCEPT ![w] = NoURL]
    /\ UNCHANGED <<mainpc, sendq, web, seedURL, workersN, activeWorkers,
                   visitedHREFs, imageSrcs, histNoFail>>

\* crawl: SADD visitedHREFs fails; it is logged and the loop continues with the
\* next SPOP.
MarkVisitedFail(w) ==
    /\ pc[w] = "sadd"
    /\ Fails(w, "SADD visitedHREFs")
    /\ pc' = [pc EXCEPT ![w] = "spop"]
    /\ url' = [url EXCEPT ![w] = NoURL]
    /\ UNCHANGED <<mainpc, sendq, web, seedURL, workersN, activeWorkers, crawlQ,
                   visitedHREFs, imageSrcs, histNoFail>>

\* crawl: conn.Flush fails; its error is not looked at, the commands still
\* buffered are not executed and the loop continues with the next SPOP.
FlushFail(w) ==
    /\ pc[w] = "flush"
    /\ Fails(w, "FLUSH")
    /\ sendq' = [sendq EXCEPT ![w] = <<>>]
    /\ pc' = [pc EXCEPT ![w] = "spop"]
    /\ url' = [url EXCEPT ![w] = NoURL]
    /\ UNCHANGED <<mainpc, web, seedURL, workersN, activeWorkers, crawlQ,
                   visitedHREFs, imageSrcs, histNoFail>>

\* Mutant of DecrFail: the counter is decremented all the same.
DecrFailDecrements(w) ==
    /\ pc[w] = "decr"
    /\ Fails(w, "DECR")
    /\ activeWorkers' = DecrValue(activeWorkers)
    /\ pc' = [pc EXCEPT ![w] = "failed"]
    /\ UNCHANGED <<mainpc, url, sendq, web, seedURL, workersN, crawlQ,
                   visitedHREFs, imageSrcs, histNoFail>>

\* Run: DECR fails; the error is logged and Run returns.
DecrFail(w) ==
    /\ pc[w] = "decr"
    /\ Fails(w, "DECR")
    /\ pc' = [pc EXCEPT ![w] = "failed"]
    /\ UNCHANGED <<mainpc, url, sendq, web, seedURL, workersN, activeWorkers, crawlQ,
                   visitedHREFs, imageSrcs, histNoFail>>

\* Run: SCARD fails; the error is dropped and qLen is the zero value.
ScardFail(w) ==
    LET qLen == FailedInt IN
    /\ pc[w] = "sleep"
    /\ Fails(w, "SCARD")
    /\ pc' = [pc EXCEPT ![w] = IF qLen > 0 THEN AfterWake ELSE "get"]
    /\ UNCHANGED <<mainpc, url, sendq, web, seedURL, workersN, activeWorkers, crawlQ,
                   visitedHREFs, imageSrcs, histNoFail>>

\* Mutant of GetFail: a failed GET keeps the worker polling.
GetFailSleeps(w) ==
    /\ pc[w] = "get"
    /\ Fails(w, "GET")
    /\ pc' = [pc EXCEPT ![w] = "sleep"]
    /\ UNCHANGED <<mainpc, url, sendq, web, seedURL, workersN, activeWorkers, crawlQ,
                   visitedHREFs, imageSrcs, histNoFail>>

\* Run: GET fails; the error is dropped and active is the zero value.
GetFail(w) ==
    LET active == FailedInt IN
    /\ pc[w] = "get"
    /\ Fails(w, "GET")
    /\ pc' = [pc EXCEPT ![w] = IF active = 0 THEN "done" ELSE "sleep"]
    /\ UNCHANGED <<mainpc, url, sendq, web, seedURL, workersN, activeWorkers, crawlQ,
                   visitedHREFs, imageSrcs, histNoFail>>

StoreFail(w) ==
    \/ IncrFail(w)
    \/ SPopFail(w)
    \/ MarkVisitedFail(w)
    \/ FlushFail(w)
    \/ DecrFail(w)
    \/ ScardFail(w)
    \/ GetFail(w)

\* Any store command of a worker may fail.
NextStoreFail == Next \/ \E w \in Workers : StoreFail(w)

SpecStoreFail == Init /\ [][NextStoreFail]_vars

\* Only DECR may fail; every other store command succeeds.
NextDecrFail == Next \/ \E w \in Workers : DecrFail(w)

SpecDecrFail == Init /\ [][NextDecrFail]_vars

\* Only SADD visitedHREFs may fail.
NextMarkFail == Next \/ \E w \in Workers : MarkVisitedFail(w)

SpecMarkFail == Init /\ [][NextMarkFail]_vars

\* Only the reads of the poll loop, SCARD and GET, may fail.
NextPollFail == Next \/ \E w \in Workers : ScardFail(w) \/ GetFail(w)

SpecPollFail == Init /\ [][NextPollFail]_vars

----------------------------------------------------------------------------
(* Properties *)

\* Positions between a worker's INCR and its DECR.
ActivePCs == {"spop", "sadd", "scrape", "flush", "decr"}

\* Positions at which a worker holds a URL that passed the SADD visitedHREFs gate.
ExtractingPCs == {"scrape", "flush"}

AllDone == \A w \in Launched : pc[w] = "done"

\* The URLs reachable from the seed through the links scrape follows.
Reachable == Closure(web, {seedURL})

\* C1: with the counter initially 0 and no store or fetch failure, under fair
\* scheduling every worker eventually terminates and RunN returns.
C1_RunNReturns == <>(AllDone /\ mainpc = "returned")

C1_Witness ==
    /\ mainpc = "returned"
    /\ AllDone
    /\ Cardinality(visitedHREFs) >= 3

\* C2: once every worker has terminated, Visited is exactly the set of URLs
\* reachable from the seed, and nothing is left in the Frontier.
C2_VisitedIsReachable == AllDone => (visitedHREFs = Reachable /\ crawlQ = {})

C2_Witness ==
    /\ AllDone
    /\ Cardinality(Reachable) >= 3
    /\ \E u, v \in Reachable : SetOf(scrapedBy, u) = {1} /\ SetOf(scrapedBy, v) = {2}

\* C3: for every URL, exactly one SADD visitedHREFs observes inserted = 1 once the
\* URL has been marked, the URL is scraped at most once, and only by the worker
\* that observed inserted = 1.
C3_ExtractedOnce ==
    \A u \in visitedHREFs \cup DOMAIN insertedN \cup DOMAIN scrapeN :
        /\ CountOf(insertedN, u) = 1
        /\ CountOf(scrapeN, u) <= 1
        /\ SetOf(scrapedBy, u) \subseteq SetOf(insertedBy, u)

\* A rediscovered URL, already scraped, has been popped again and is about to be
\* marked a second time.
C3_Witness ==
    \E w \in Workers :
        /\ pc[w] = "sadd"
        /\ url[w] \in visitedHREFs
        /\ CountOf(scrapeN, url[w]) = 1

\* The images scrape finds on the pages of a set of URLs.
ImagesOf(S) == UNION {Range(ScrapeOf(web, u).imgSrcs) : u \in S}

C5_QuiescentAtTermination ==
    [][\A w \in Workers :
          (pc[w] \in {"decr", "get"} /\ pc'[w] = "done")
              => (crawlQ' = {} /\ \A v \in Workers : pc'[v] \notin ActivePCs)]_vars

\* One worker has terminated and another is in the poll loop, about to read 0.
C5_Witness ==
    \E w, v \in Workers :
        /\ pc[w] = "done"
        /\ pc[v] = "get"
        /\ activeWorkers = 0

\* C6: the counter is the number of workers between INCR and DECR; it is never
\* negative and never more than the number of workers.
C6_CounterCountsActive ==
    /\ activeWorkers = Cardinality({w \in Workers : pc[w] \in ActivePCs})
    /\ activeWorkers >= 0
    /\ activeWorkers <= workersN

\* One worker is in the poll loop, not counted, while the other, counted, is
\* sending what it extracted.
C6_Witness ==
    /\ activeWorkers = 1
    /\ \E w, v \in Workers : pc[w] = "sleep" /\ pc[v] = "flush"

\* C7 as stated: a URL in the Frontier has never been extracted-from.
C7_FrontierNeverExtracted == \A u \in crawlQ : CountOf(scrapeN, u) = 0

\* C7, amended: a URL in the Frontier has been extracted-from at most once, and
\* one that has been is in Visited (so claiming it again skips it); a URL in the
\* Frontier that is not in Visited has never been extracted-from.
C7_FrontierExtractedOnlyIfVisited ==
    \A u \in crawlQ :
        /\ CountOf(scrapeN, u) <= 1
        /\ CountOf(scrapeN, u) = 1 => u \in visitedHREFs

\* A page already extracted was linked again and sits in the Frontier.
C7_Witness == \E u \in crawlQ : CountOf(scrapeN, u) = 1 /\ u \in visitedHREFs

\* C8 as stated: no URL is at once in the Frontier and held by a worker.
C8_NotInFrontierWhileHeld ==
    \A w \in Workers : pc[w] \in HoldingPCs => url[w] \notin crawlQ

\* C8, amended: the claim itself removes the URL, so right after a worker's SPOP
\* the URL it got is not in the Frontier (it can come back, while still held, only
\* through a later SADD crawlQ of a link to it).
C8_ClaimRemoves ==
    [][\A w \in Workers :
          (pc[w] = "spop" /\ pc'[w] = "sadd")
              => (url'[w] \in crawlQ /\ url'[w] \notin crawlQ')]_vars

\* A worker has just popped one URL out of several.
C8_Witness ==
    \E w \in Workers :
        /\ pc[w] = "sadd"
        /\ url[w] \notin crawlQ
        /\ crawlQ # {}

SameClaim(S, T) ==
    \E w, v \in Workers :
        /\ w # v
        /\ pc[w] \in S
        /\ pc[v] \in T
        /\ url[w] = url[v]

\* C9 as stated: SPOP never returns a URL it returned before, and no two workers
\* hold the same URL at once.
C9_ClaimedOnce ==
    [][/\ \A w \in Workers :
             (pc[w] = "spop" /\ pc'[w] = "sadd") => url'[w] \notin claimedEver
       /\ ~SameClaim(HoldingPCs, HoldingPCs)']_vars

\* C9, amended: a URL can be claimed again after a link re-enqueued it, and two
\* workers can hold it at once, but no two workers hold the same URL past the
\* SADD visitedHREFs gate: at most one of them extracts it.
C9_OneExtractor == ~SameClaim(ExtractingPCs, ExtractingPCs)

\* Two workers hold the same URL: one is extracting it, the other has popped it
\* again and has not yet asked whether it was visited.
C9_Witness == SameClaim(ExtractingPCs, {"sadd"})

\* C10: when http.Get fails for a worker's URL, that worker goes on to its next
\* SPOP, nothing is sent for the URL, and the other workers and main are where
\* they were.
C10_FetchFailureSkipsURL ==
    [][\A w \in Workers :
          (pc[w] = "scrape" /\ url[w] \in fetchFailed' \ fetchFailed)
              => /\ pc'[w] = "spop"
                 /\ \A v \in Workers \ {w} : pc'[v] = pc[v]
                 /\ mainpc' = mainpc
                 /\ UNCHANGED <<sendq, crawlQ, imageSrcs>>]_vars

\* The commands of worker w that fail in the step.
NewFailures(w) == {f[2] : f \in {g \in failed' \ failed : g[1] = w}}

\* C11: whichever store command of a worker fails, the worker leaves its loop
\* with the failed call (Run returns) and issues no store command afterwards.
C11_StoreFailureIsFatal ==
    [][\A w \in Workers :
          /\ NewFailures(w) # {} => pc'[w] \in {"failed", "done"}
          /\ pc[w] \in {"failed", "done"} => pc'[w] = pc[w]]_vars

\* C12: once the DECR of some worker has failed, RunN never returns.
C12_DecrFailureBlocksRunN ==
    (\E w \in Workers : failed = {<<w, "DECR">>}) => mainpc # "returned"

\* C12, amended: a worker whose DECR fails returns from Run with activeWorkers
\* as it was; from then on activeWorkers is at least 1 and no worker reaches
\* the return at active == 0 any more.  RunN still returns when every other
\* worker had returned before that DECR, or when there is no other worker.
C12_DecrFailureStrandsOthers ==
    [][/\ \A w \in Workers :
             "DECR" \in NewFailures(w)
                 => pc'[w] = "failed" /\ activeWorkers' = activeWorkers
       /\ failed' # {}
             => /\ activeWorkers' >= 1
                /\ \A v \in Workers : pc'[v] = "done" => pc[v] = "done"]_vars

\* The DECR of one worker has failed and the other launched worker polls an
\* empty crawlQ with activeWorkers stuck at 1.
C12_Witness ==
    \E w, v \in Launched :
        /\ failed = {<<w, "DECR">>}
        /\ pc[w] = "failed"
        /\ pc[v] = "get"
        /\ crawlQ = {}
        /\ activeWorkers = 1
        /\ mainpc = "wait"

\* C13: every URL of crawlQ and of visitedHREFs, and every URL a worker is about
\* to add to crawlQ, has the seed's hostname (a link resolving to another host
\* than its page's is not enqueued); image URLs are added whatever their host.
C13_FrontierStaysOnSeedHost ==
    /\ \A u \in crawlQ \cup visitedHREFs : Hostname(u) = Hostname(seedURL)
    /\ \A w \in Workers : \A i \in DOMAIN sendq[w] :
           sendq[w][i].key = "crawlQ"
               => Hostname(sendq[w][i].member) = Hostname(url[w])
    /\ AllDone => ImagesOf(visitedHREFs) \subseteq imageSrcs

\* The crawl is over, a page with a link to another host was extracted, and an
\* image of another host is in imageSrcs.
C13_Witness ==
    /\ AllDone
    /\ \E u \in visitedHREFs : \E i \in DOMAIN HttpGet(web, u).body :
           LET tok == HttpGet(web, u).body[i] IN
           /\ tok.data = "a"
           /\ attrVal(tok.attr, "href").valid
           /\ Hostname(ResolveReference(u, attrVal(tok.attr, "href"))) # Hostname(u)
    /\ \E i \in imageSrcs : Hostname(i) # Hostname(seedURL)

\* C14: every member of crawlQ, visitedHREFs and imageSrcs is in the form
\* toSanitizedString gives, the seed included: no two members of visitedHREFs
\* name the same page, and no page is scraped under two URLs.
C14_CanonicalEverywhere ==
    /\ \A u \in crawlQ \cup visitedHREFs \cup imageSrcs : u = toSanitizedString(u)
    /\ \A u, v \in visitedHREFs : PageKey(u) = PageKey(v) => u = v
    /\ \A u, v \in DOMAIN scrapeN : PageKey(u) = PageKey(v) => u = v

\* C15: the step in which a worker scrapes a newly visited URL served with a
\* content type other than text/html sends nothing: crawlQ and imageSrcs are as
\* before, the URL is still in visitedHREFs and the worker is at its next SPOP.
C15_NonHTMLChangesNothing ==
    [][\A w \in Workers :
          (/\ pc[w] = "scrape"
           /\ pc'[w] # "scrape"
           /\ HttpGet(web, url[w]).ct = PDF)
              => /\ sendq'[w] = <<>>
                 /\ crawlQ' = crawlQ
                 /\ imageSrcs' = imageSrcs
                 /\ url[w] \in visitedHREFs'
                 /\ pc'[w] = "spop"]_vars

\* A PDF whose body holds a link has been scraped, and its scraper has gone on
\* to pop another URL.
C15_Witness ==
    \E u \in visitedHREFs : \E w \in Workers :
        /\ HttpGet(web, u).ct = PDF
        /\ HttpGet(web, u).body # <<>>
        /\ SetOf(scrapedBy, u) = {w}
        /\ pc[w] = "sadd"
        /\ url[w] # u

\* C16: every step leaves in visitedHREFs and in imageSrcs all the members they
\* had: both sets only grow.
C16_VisitedAndImagesOnlyGrow ==
    [][visitedHREFs \subseteq visitedHREFs' /\ imageSrcs \subseteq imageSrcs']_vars

\* Both sets have grown more than once, while a worker is about to add more.
C16_Witness ==
    /\ Cardinality(visitedHREFs) >= 2
    /\ Cardinality(imageSrcs) >= 2
    /\ \E w \in Workers : pc[w] \in {"sadd", "flush"}

\* C17: every worker that is claiming, marking, scraping or sending is counted:
\* activeWorkers is at least the number of such workers, hence at least the
\* number of URLs held; and a worker that polls leaves the poll loop only for
\* INCR, when crawlQ was not empty, or for the return at active == 0.
C17_ClaimsOnlyWhileCounted ==
    [][/\ activeWorkers' >= Cardinality({w \in Workers : pc'[w] \in HoldingPCs \cup {"spop"}})
       /\ \A w \in Workers :
             /\ pc[w] \in {"sleep", "get"} => pc'[w] \in {"sleep", "get", "incr", "done"}
             /\ (pc[w] = "sleep" /\ pc'[w] = "incr") => crawlQ # {}]_vars

\* A worker that has scraped a page before is at INCR again, so it was woken
\* from the poll loop by a non-empty crawlQ; it is not counted and holds no URL,
\* while the other worker, the only one counted, holds one.
C17_Witness ==
    \E w \in Workers : \E v \in Workers \ {w} :
        /\ pc[w] = "incr"
        /\ \E u \in DOMAIN scrapedBy : w \in scrapedBy[u]
        /\ url[w] = NoURL
        /\ pc[v] \in HoldingPCs
        /\ activeWorkers = 1

\* Whether a tag carries the attribute, and the values of that attribute on the
\* start and self-closing tags of that name which carry it.
HasAttr(attrs, attrName) == \E i \in DOMAIN attrs : attrs[i].Key = attrName

PresentVals(toks, tag, attrName) ==
    {attrVal(toks[i].attr, attrName) :
        i \in {j \in DOMAIN toks : /\ toks[j].type \in {"StartTag", "SelfClosingTag"}
                                   /\ toks[j].data = tag
                                   /\ HasAttr(toks[j].attr, attrName)}}

ResolvedVals(u, tag, attrName) ==
    {toSanitizedString(ResolveReference(u, v)) :
        v \in {x \in PresentVals(HttpGet(web, u).body, tag, attrName) : x.valid}}

\* C18: every member of imageSrcs is the resolved value of a src attribute that
\* an img tag of a scraped page carries, and every URL a worker is about to add
\* to crawlQ is the resolved value of an href attribute that an a tag of its
\* page carries: a tag without the attribute adds nothing.
C18_OnlyPresentAttributes ==
    /\ \A i \in imageSrcs : \E u \in DOMAIN scrapeN : i \in ResolvedVals(u, "img", "src")
    /\ \A w \in Workers : \A k \in DOMAIN sendq[w] :
           sendq[w][k].key = "crawlQ"
               => sendq[w][k].member \in ResolvedVals(url[w], "a", "href")

\* Worker w's SADD visitedHREFs fails in the step: its first such failure, or a
\* URL that was not visited is skipped.
MarkFails(w) ==
    /\ pc[w] = "sadd"
    /\ \/ "SADD visitedHREFs" \in NewFailures(w)
       \/ pc'[w] = "spop" /\ url[w] \notin visitedHREFs

\* No worker holds u and no worker is about to add u to crawlQ.
NotInFlight(u) ==
    \A w \in Workers :
        /\ url[w] # u
        /\ \A k \in DOMAIN sendq[w] : sendq[w][k] # [key |-> "crawlQ", member |-> u]

\* C19: when SADD visitedHREFs fails for the URL a worker has popped, the worker
\* goes on to its next SPOP and the URL is then neither in crawlQ nor in
\* visitedHREFs.
C19_FailedMarkLeavesURLNowhere ==
    [][\A w \in Workers :
          MarkFails(w)
              => /\ pc'[w] = "spop"
                 /\ url[w] \notin crawlQ' \cup visitedHREFs']_vars

\* C19, amended: when SADD visitedHREFs fails for the URL a worker has popped,
\* the worker goes on to its next SPOP without scraping the URL, and the step
\* changes neither crawlQ nor visitedHREFs nor imageSrcs: a URL that was not
\* visited before is still not visited.  A URL enters visitedHREFs only from a
\* worker that popped it, so a URL that is neither in crawlQ nor held nor about
\* to be enqueued is not visited in the next step either.
C19_FailedMarkDropsURL ==
    [][/\ \A w \in Workers :
             MarkFails(w)
                 => /\ pc'[w] = "spop"
                    /\ url'[w] = NoURL
                    /\ sendq'[w] = <<>>
                    /\ UNCHANGED <<crawlQ, visitedHREFs, imageSrcs, scrapeN>>
       /\ \A u \in visitedHREFs' \ visitedHREFs :
             \E w \in Workers : pc[w] = "sadd" /\ url[w] = u /\ pc'[w] = "scrape"
       /\ \A u \in DOMAIN Scraped[web] :
             (u \notin crawlQ \cup visitedHREFs /\ NotInFlight(u))
                 => u \notin visitedHREFs']_vars

\* The crawl is over and a page the site links to was never visited: the SADD
\* visitedHREFs for it failed and no other link brought it back.
C19_Witness ==
    /\ AllDone
    /\ mainpc = "returned"
    /\ \E w \in Workers : <<w, "SADD visitedHREFs">> \in failed
    /\ \E u \in Reachable \ visitedHREFs : u \in claimedEver /\ u \notin crawlQ

\* C20: in the poll loop a failed SCARD sends the worker on to GET as an empty
\* crawlQ does, and a failed GET makes Run return as active == 0 does, whatever
\* crawlQ and activeWorkers hold; neither changes the store.
C20_FailedPollReadsAsZero ==
    [][\A w \in Workers :
          /\ (pc[w] = "sleep" /\ "SCARD" \in NewFailures(w)) => pc'[w] = "get"
          /\ (pc[w] = "get" /\ "GET" \in NewFailures(w)) => pc'[w] = "done"
          /\ NewFailures(w) # {}
                 => UNCHANGED <<activeWorkers, crawlQ, visitedHREFs, imageSrcs>>]_vars

\* A worker has returned after a failed SCARD and a failed GET while crawlQ is
\* not empty and the other worker, counted in activeWorkers, holds a URL.
C20_Witness ==
    \E w \in Workers : \E v \in Workers \ {w} :
        /\ {<<w, "SCARD">>, <<w, "GET">>} \subseteq failed
        /\ pc[w] = "done"
        /\ pc[v] \in HoldingPCs
        /\ activeWorkers >= 1
        /\ crawlQ # {}

====
